---- MODULE Spec2Model ----
(***************************************************************************)
(* Model of src/Simulator_Trading.py (class TradingSimulatorTk): the       *)
(* simulated ETH/USD price walk, the OHLC candle history, the chart window *)
(* and the buy/sell bookkeeping, driven by one Tk event loop.              *)
(*                                                                         *)
(* Number representation (Python floats are modelled as exact reals):      *)
(*   prices and candle fields   integer cents            (3500.00 = 350000)*)
(*   unrounded candle values    [w, f]  = w + f/JitterDen cents            *)
(*   unrounded products         [w, n, d] = w + n/d cents, 0 <= n < d      *)
(*   ETH amounts   [kind, h, l] = h * 0.1 ETH    + l * 1e-13 ETH           *)
(*   USD amounts   [kind, h, l] = h * 0.001 USD  + l * 1e-15 USD           *)
(* so that quantity * price is exact: (0.1 ETH) * (1 cent) = 0.001 USD and *)
(* (1e-13 ETH) * (1 cent) = 1e-15 USD.  The l parts stay far below one h   *)
(* unit, so amounts compare lexicographically.  kind is "fin", "nan",      *)
(* "inf" or "ninf" (what float() and float arithmetic can produce).        *)
(***************************************************************************)
EXTENDS Integers, Sequences, FiniteSets, TLC

VARIABLES
    phase,          \* "built" (line 91), "candled" (line 94), "mainloop"
    pending,        \* number of root.after callbacks waiting to fire
    dialog,         \* the message box that is open, or NoDialog
    balance_usd, balance_eth,
    current_price,  \* cents
    prev_price,     \* <<>> until _simulate_next_price sets it, then <<cents>>
    candles,        \* the history, oldest first
    chart_w,        \* WIDTH - CHART_LEFT_PAD - CHART_RIGHT_PAD
    chart,          \* what the canvas shows
    price_var,      \* <<>> for "-", else <<cents>> shown in the header
    nclicks         \* buy/sell clicks so far (bounds the exploration)

vars == <<phase, pending, dialog, balance_usd, balance_eth, current_price,
          prev_price, candles, chart_w, chart, price_var, nclicks>>

\* ------------------------------------------------------------ bounds ----
MaxCandles == 4
MaxClicks == 2

\* --------------------------------------------------------- constants ----
WIDTH == 1550
CHART_LEFT_PAD == 60
CHART_RIGHT_PAD == 40
CANDLE_WIDTH == 12
CANDLE_GAP == 4
INITIAL_USD == 10000000
INITIAL_ETH == 0
INITIAL_PRICE == 350000
PRICE_FLOOR == 100
DRIFT == 0
VOLATILITY == 6
PctDen == 1000
JitterDen == 1000000
JitterMax == 1000
NoiseDen == 1000
EpsUsd == 1000000
EpsEth == 10
MinPadding == 1000
MinBottom == 100
GREEN == "#22c55e"
RED == "#ef4444"

\* window widths the WIDTH constant is configured to (line 38 asks the user
\* to adjust it to the monitor): the shipped one and two narrow ones, with
\* room for two candles and for none
Widths == {WIDTH, 132, 100}
\* random.gauss(DRIFT, VOLATILITY) draws, in 1/PctDen
PctDraws == {-2500, DRIFT, DRIFT + VOLATILITY}
\* random.uniform(-0.001, 0.001) draws, in 1/JitterDen
Jitters == {-JitterMax, 0, 1, JitterMax}
\* abs(random.gauss(0, 0.0015)) draws, in 1/NoiseDen
Noise == {0, 2}
\* the single jitter and noise draws of the specification with a trading user
OneJitter == {-JitterMax}
OneNoise == {2}

Max(a, b) == IF a >= b THEN a ELSE b
Min(a, b) == IF a <= b THEN a ELSE b

\* ------------------------------------------------------ fixed point ----
\* round(x, 2) of x = w + n/d cents: nearest cent, ties to even
Round2(w, n, d) ==
    IF 2 * n < d THEN w
    ELSE IF 2 * n > d THEN w + 1
    ELSE IF w % 2 = 0 THEN w ELSE w + 1

Cents(p) == [w |-> p, f |-> 0]

FxGe(a, b) == a.w > b.w \/ (a.w = b.w /\ a.f >= b.f)
FxMax(a, b) == IF FxGe(a, b) THEN a ELSE b
FxMin(a, b) == IF FxGe(a, b) THEN b ELSE a

\* p * (1 + u/JitterDen), unrounded
Jittered(p, u) ==
    LET t == p * u
    IN  [w |-> p + (t \div JitterDen), f |-> t % JitterDen]

\* m * (num / NoiseDen), unrounded, as [w, n, d]
Scale(m, num) ==
    LET t  == m.f * num
        w1 == m.w * num + (t \div JitterDen)
        f1 == t % JitterDen
    IN  [w |-> w1 \div NoiseDen,
         n |-> (w1 % NoiseDen) * JitterDen + f1,
         d |-> NoiseDen * JitterDen]

\* ------------------------------------------------------ price walk ----
\* the walk without the max(1.0, ...)
NextPriceNoFloor(p, pct) ==
    LET x == p * (PctDen + pct)
    IN  Round2(x \div PctDen, x % PctDen, PctDen)

NextPrice(p, pct) ==
    LET x == Max(PRICE_FLOOR * PctDen, p * (PctDen + pct))
    IN  Round2(x \div PctDen, x % PctDen, PctDen)

\* --------------------------------------------------------- candles ----
CandleHigh(o, c, g) ==
    LET s == Scale(FxMax(o, c), NoiseDen + g) IN Round2(s.w, s.n, s.d)

\* the low taken from max(o, c)
CandleLowFromMax(o, c, g) ==
    LET s == Scale(FxMax(o, c), NoiseDen - g) IN Round2(s.w, s.n, s.d)

CandleLow(o, c, g) ==
    LET s == Scale(FxMin(o, c), NoiseDen - g) IN Round2(s.w, s.n, s.d)

CandleColor(o, c) == IF FxGe(c, o) THEN GREEN ELSE RED

NewCandle(o, c, gh, gl) ==
    [open  |-> Round2(o.w, o.f, JitterDen),
     high  |-> CandleHigh(o, c, gh),
     low   |-> CandleLow(o, c, gl),
     close |-> Round2(c.w, c.f, JitterDen),
     color |-> CandleColor(o, c)]

\* the open taken from the last candle's open
AppendFromLastOpen(hist, price, initial, u, gh, gl) ==
    LET o == IF initial \/ hist = <<>>
             THEN Jittered(price, u)
             ELSE Cents(hist[Len(hist)].open)
        c == Cents(price)
    IN  Append(hist, NewCandle(o, c, gh, gl))

\* _append_new_candle: the history after the append
AppendNewCandle(hist, price, initial, u, gh, gl) ==
    LET o == IF initial \/ hist = <<>>
             THEN Jittered(price, u)
             ELSE Cents(hist[Len(hist)].close)
        c == Cents(price)
    IN  Append(hist, NewCandle(o, c, gh, gl))

\* ----------------------------------------------------------- chart ----
RECURSIVE MaxHigh(_), MinLow(_)
MaxHigh(data) ==
    IF Len(data) = 1 THEN data[1].high
    ELSE Max(data[1].high, MaxHigh(Tail(data)))
MinLow(data) ==
    IF Len(data) = 1 THEN data[1].low
    ELSE Min(data[1].low, MinLow(Tail(data)))

\* max_candles = max(1, chart_w // step)
MaxVisible(w) == Max(1, w \div (CANDLE_WIDTH + CANDLE_GAP))

\* hist[:m], the oldest m candles
VisibleHead(hist, m) ==
    [i \in 1..(IF m <= Len(hist) THEN m ELSE Len(hist)) |-> hist[i]]

\* hist[-m:] for m >= 1: a negative start index counts from the end and is
\* clamped to the first element
Visible(hist, m) ==
    LET n     == Len(hist)
        start == Max(0, n - m)
    IN  [i \in 1..(n - start) |-> hist[start + i]]

\* the padding without its max(1.0, ...)
PaddingNoFloor(allHigh, allLow) == allHigh - allLow

\* padding, top_price and bot_price in tenths of a cent
Padding(allHigh, allLow) == Max(MinPadding, allHigh - allLow)
TopPrice(allHigh, allLow) == allHigh * 10 + Padding(allHigh, allLow)
BotPrice(allHigh, allLow) ==
    Max(MinBottom, allLow * 10 - Padding(allHigh, allLow))

EmptyChart == [top |-> 0, bot |-> 0, bodies |-> <<>>]

\* _draw_chart: the canvas after chart.delete("all") and the redraw; each
\* body is the rectangle of one candle at its x position
DrawChart(hist, w) ==
    IF hist = <<>> THEN EmptyChart
    ELSE LET data == Visible(hist, MaxVisible(w))
             ah   == MaxHigh(data)
             al   == MinLow(data)
             step == CANDLE_WIDTH + CANDLE_GAP
         IN  [top    |-> TopPrice(ah, al),
              bot    |-> BotPrice(ah, al),
              bodies |-> [i \in 1..Len(data) |->
                            [x        |-> (i - 1) * step,
                             x_center |-> (i - 1) * step + CANDLE_WIDTH \div 2,
                             candle   |-> data[i]]]]

\* --------------------------------------------------------- amounts ----
Fin(h, l) == [kind |-> "fin", h |-> h, l |-> l]
NaN == [kind |-> "nan", h |-> 0, l |-> 0]
Inf == [kind |-> "inf", h |-> 0, l |-> 0]
NInf == [kind |-> "ninf", h |-> 0, l |-> 0]

\* a + b and a - b of floats
AmtAdd(a, b) ==
    IF a.kind = "nan" \/ b.kind = "nan" THEN NaN
    ELSE IF a.kind = "fin" /\ b.kind = "fin" THEN Fin(a.h + b.h, a.l + b.l)
    ELSE IF "inf" \in {a.kind, b.kind} /\ "ninf" \in {a.kind, b.kind} THEN NaN
    ELSE IF "inf" \in {a.kind, b.kind} THEN Inf ELSE NInf

AmtNeg(a) ==
    IF a.kind = "fin" THEN Fin(-a.h, -a.l)
    ELSE IF a.kind = "inf" THEN NInf
    ELSE IF a.kind = "ninf" THEN Inf ELSE NaN

AmtSub(a, b) == AmtAdd(a, AmtNeg(b))

\* qty * current_price, the price being a positive number of cents
AmtTimesPrice(q, p) == IF q.kind = "fin" THEN Fin(q.h * p, q.l * p) ELSE q

\* a > b + eps; every comparison with a NaN is False
AmtGt(a, b, eps) ==
    IF a.kind = "nan" \/ b.kind = "nan" THEN FALSE
    ELSE IF a.kind = "fin" /\ b.kind = "fin"
         THEN a.h > b.h \/ (a.h = b.h /\ a.l > b.l + eps)
    ELSE IF a.kind = b.kind THEN FALSE
    ELSE a.kind = "inf" \/ b.kind = "ninf"

\* q <= 0
AmtLeZero(q) ==
    IF q.kind = "nan" THEN FALSE
    ELSE IF q.kind = "fin" THEN q.h < 0 \/ (q.h = 0 /\ q.l <= 0)
    ELSE q.kind = "ninf"

\* ---------------------------------------------------------- labels ----
NoDialog == "none"
InvalidQty == "Quantidade invalida"
Insufficient == "Saldo insuficiente"

\* what the user can have typed into qty_entry: text float() cannot parse,
\* or the float it parses to
Text == [kind |-> "text", h |-> 0, l |-> 0]

\* _parse_qty: the quantity, or 0.0 after the error box
ParseQty(entry) ==
    IF entry.kind = "text" \/ AmtLeZero(entry) THEN Fin(0, 0) ELSE entry
ParseQtyFails(entry) == entry.kind = "text" \/ AmtLeZero(entry)

\* the quantities tried in qty_entry: unparseable text, nan, inf, zero, a
\* negative, 0.1 (the default "0.10"), 1e-13, 1.1e-12 and 100 ETH
QtyEntries ==
    {Text, NaN, Inf, Fin(0, 0), Fin(-1, 0), Fin(1, 0), Fin(0, 1), Fin(0, 11),
     Fin(1000, 0)}
\* and the largest multiple of 0.1 ETH the USD balance pays for
BuyEntries ==
    QtyEntries
    \cup (IF balance_usd.kind = "fin" /\ balance_usd.h >= current_price
          THEN {Fin(balance_usd.h \div current_price, 0)} ELSE {})
\* and the whole ETH balance
SellEntries ==
    QtyEntries
    \cup (IF balance_eth.kind = "fin" /\ ~AmtLeZero(balance_eth)
          THEN {balance_eth} ELSE {})

\* ------------------------------------------------------------ tick ----
\* _tick: _simulate_next_price, _append_new_candle, _draw_chart and
\* _refresh_info_labels, each on the result of the one before
tick(p, hist, w, pct, u, gh, gl) ==
    LET newPrice == NextPrice(p, pct)
        newHist  == AppendNewCandle(hist, newPrice, FALSE, u, gh, gl)
        canvas   == DrawChart(newHist, w)
    IN  [prev_price    |-> <<p>>,
         current_price |-> newPrice,
         candles       |-> newHist,
         chart         |-> canvas,
         price_var     |-> <<newPrice>>]

\* a second root.after per firing
AfterTwice(n) == n + 2

\* root.after(UPDATE_MS, self._schedule_update)
After(n) == n + 1

\* _schedule_update: one tick, then the next firing is armed; fired is 1
\* when the call is a callback taken from the pending ones
schedule_update(fired, noise) ==
    /\ Len(candles) < MaxCandles
    /\ \E pct \in PctDraws, gh \in noise, gl \in noise :
         \E u \in (IF candles = <<>> THEN Jitters ELSE {0}) :
           LET t == tick(current_price, candles, chart_w, pct, u, gh, gl)
           IN  /\ prev_price' = t.prev_price
               /\ current_price' = t.current_price
               /\ candles' = t.candles
               /\ chart' = t.chart
               /\ price_var' = t.price_var
    /\ pending' = After(pending - fired)
    /\ UNCHANGED <<dialog, balance_usd, balance_eth, chart_w, nclicks>>

\* ----------------------------------------------------- constructor ----
InitWith(widths) ==
    /\ phase = "built"
    /\ pending = 0
    /\ dialog = NoDialog
    /\ balance_usd = Fin(INITIAL_USD, 0)
    /\ balance_eth = Fin(INITIAL_ETH, 0)
    /\ current_price = INITIAL_PRICE
    /\ prev_price = <<>>
    /\ candles = <<>>
    /\ chart_w \in {w - CHART_LEFT_PAD - CHART_RIGHT_PAD : w \in widths}
    /\ chart = EmptyChart
    /\ price_var = <<>>
    /\ nclicks = 0

\* __init__, line 94: self._append_new_candle(initial=True)
first_candle(jitters, noise) ==
    /\ phase = "built"
    /\ phase' = "candled"
    /\ \E u \in jitters, gh \in noise, gl \in noise :
         candles' = AppendNewCandle(candles, current_price, TRUE, u, gh, gl)
    /\ UNCHANGED <<pending, dialog, balance_usd, balance_eth, current_price,
                   prev_price, chart_w, chart, price_var, nclicks>>

\* __init__, line 97: self._schedule_update(), called directly
first_update(noise) ==
    /\ phase = "candled"
    /\ phase' = "mainloop"
    /\ schedule_update(0, noise)

\* an armed callback fires from the event loop (mainloop, or the loop a
\* message box runs while it is open)
timer_fires(noise) ==
    /\ phase = "mainloop"
    /\ pending >= 1
    /\ phase' = phase
    /\ schedule_update(1, noise)

\* ---------------------------------------------------------- trades ----
\* _buy_eth ending in self._tick() in place of self._refresh_info_labels()
buy_eth_ticks(entry) ==
    /\ phase = "mainloop"
    /\ dialog = NoDialog
    /\ nclicks < MaxClicks
    /\ nclicks' = nclicks + 1
    /\ LET qty  == ParseQty(entry)
           cost == AmtTimesPrice(qty, current_price)
           t    == tick(current_price, candles, chart_w, VOLATILITY, 0, 0, 0)
       IN  IF AmtLeZero(qty) \/ AmtGt(cost, balance_usd, EpsUsd)
           THEN /\ dialog' = IF ParseQtyFails(entry) THEN InvalidQty
                             ELSE IF AmtLeZero(qty) THEN dialog
                             ELSE Insufficient
                /\ UNCHANGED <<balance_usd, balance_eth, price_var,
                               current_price, prev_price, candles, chart>>
           ELSE /\ balance_usd' = AmtSub(balance_usd, cost)
                /\ balance_eth' = AmtAdd(balance_eth, qty)
                /\ dialog' = dialog
                /\ prev_price' = t.prev_price
                /\ current_price' = t.current_price
                /\ candles' = t.candles
                /\ chart' = t.chart
                /\ price_var' = t.price_var
    /\ UNCHANGED <<phase, pending, chart_w>>

\* _buy_eth with entry typed into qty_entry
buy_eth(entry) ==
    /\ phase = "mainloop"
    /\ dialog = NoDialog
    /\ nclicks < MaxClicks
    /\ nclicks' = nclicks + 1
    /\ LET qty  == ParseQty(entry)
           cost == AmtTimesPrice(qty, current_price)
       IN  IF AmtLeZero(qty)
           THEN /\ dialog' = IF ParseQtyFails(entry) THEN InvalidQty ELSE dialog
                /\ UNCHANGED <<balance_usd, balance_eth, price_var>>
           ELSE IF AmtGt(cost, balance_usd, EpsUsd)
           THEN /\ dialog' = Insufficient
                /\ UNCHANGED <<balance_usd, balance_eth, price_var>>
           ELSE /\ balance_usd' = AmtSub(balance_usd, cost)
                /\ balance_eth' = AmtAdd(balance_eth, qty)
                /\ price_var' = <<current_price>>
                /\ dialog' = dialog
    /\ UNCHANGED <<phase, pending, current_price, prev_price, candles,
                   chart_w, chart>>

\* _sell_eth with entry typed into qty_entry
sell_eth(entry) ==
    /\ phase = "mainloop"
    /\ dialog = NoDialog
    /\ nclicks < MaxClicks
    /\ nclicks' = nclicks + 1
    /\ LET qty      == ParseQty(entry)
           proceeds == AmtTimesPrice(qty, current_price)
       IN  IF AmtLeZero(qty)
           THEN /\ dialog' = IF ParseQtyFails(entry) THEN InvalidQty ELSE dialog
                /\ UNCHANGED <<balance_usd, balance_eth, price_var>>
           ELSE IF AmtGt(qty, balance_eth, EpsEth)
           THEN /\ dialog' = Insufficient
                /\ UNCHANGED <<balance_usd, balance_eth, price_var>>
           ELSE /\ balance_eth' = AmtSub(balance_eth, qty)
                /\ balance_usd' = AmtAdd(balance_usd, proceeds)
                /\ price_var' = <<current_price>>
                /\ dialog' = dialog
    /\ UNCHANGED <<phase, pending, current_price, prev_price, candles,
                   chart_w, chart>>

\* the user closes the message box: showerror/showwarning returns, and the
\* handler that opened it returns without touching anything
dismiss ==
    /\ dialog # NoDialog
    /\ dialog' = NoDialog
    /\ UNCHANGED <<phase, pending, balance_usd, balance_eth, current_price,
                   prev_price, candles, chart_w, chart, price_var, nclicks>>

\* -------------------------------------------------- specifications ----
\* The program with a user who trades: every handler, the shipped WIDTH,
\* one jitter and one noise value.
Init == InitWith({WIDTH})
FirstCandle == first_candle(OneJitter, OneNoise)
FirstUpdate == first_update(OneNoise)
TimerFires == timer_fires(OneNoise)
Buy == \E entry \in BuyEntries : buy_eth(entry)
Sell == \E entry \in SellEntries : sell_eth(entry)

Next ==
    \/ FirstCandle
    \/ FirstUpdate
    \/ TimerFires
    \/ Buy
    \/ Sell
    \/ dismiss

Spec == Init /\ [][Next]_vars

\* The program with an idle user: only the constructor and the timer run,
\* over every configured width and every jitter and noise draw.  Buy, Sell
\* and dismiss leave candles, chart and current_price as they are
\* (C8_Frame), so the histories and canvases of Spec are among these.
MarketInit == InitWith(Widths)
MarketFirstCandle == first_candle(Jitters, Noise)
MarketFirstUpdate == first_update(Noise)
MarketTimerFires == timer_fires(Noise)

MarketNext ==
    \/ MarketFirstCandle
    \/ MarketFirstUpdate
    \/ MarketTimerFires

MarketSpec == MarketInit /\ [][MarketNext]_vars

\* ---------------------------------------------------------- claims ----
AmtNonNeg(a) ==
    \/ a.kind = "inf"
    \/ a.kind = "fin" /\ (a.h > 0 \/ (a.h = 0 /\ a.l >= 0))

Last(seq) == seq[Len(seq)]

\* the trades that must be rejected: unparseable or <= 0 quantity, a cost
\* above balance_usd, a quantity above balance_eth (an entry that parses to
\* nan is not counted among them)
MustRejectBuy(e) ==
    \/ e.kind = "text"
    \/ AmtLeZero(e)
    \/ AmtGt(AmtTimesPrice(e, current_price), balance_usd, 0)
MustRejectSell(e) ==
    \/ e.kind = "text"
    \/ AmtLeZero(e)
    \/ AmtGt(e, balance_eth, 0)
ErrorReported == dialog' # NoDialog /\ UNCHANGED <<balance_usd, balance_eth>>

\* C1: a buy or sell whose quantity is unparseable or <= 0, a buy with
\* quantity * current_price > balance_usd and a sell with quantity >
\* balance_eth report an error and leave both balances as they were.
C1_RejectedTradeKeepsBalances ==
    [][/\ \A e \in BuyEntries :
            (buy_eth(e) /\ MustRejectBuy(e)) => ErrorReported
       /\ \A e \in SellEntries :
            (sell_eth(e) /\ MustRejectSell(e)) => ErrorReported]_vars

\* C2: balance_usd and balance_eth are nonnegative in every reachable state.
C2_BalancesNonnegative == AmtNonNeg(balance_usd) /\ AmtNonNeg(balance_eth)

\* C3: every stored candle has low <= min(open, close) and
\* max(open, close) <= high on its rounded values.
C3_CandleInvariant ==
    \A i \in 1..Len(candles) :
        /\ candles[i].low <= Min(candles[i].open, candles[i].close)
        /\ Max(candles[i].open, candles[i].close) <= candles[i].high

C3_Witness ==
    /\ Len(candles) >= 2
    /\ candles[1].open # candles[1].close
    /\ candles[1].high = Max(candles[1].open, candles[1].close)
    /\ \E i \in 2..Len(candles) :
        /\ candles[i].open # candles[i].close
        /\ candles[i].low < Min(candles[i].open, candles[i].close)
        /\ candles[i].high > Max(candles[i].open, candles[i].close)

\* C4: every stored candle, the initial one included, is tagged green exactly
\* when its stored close >= its stored open, and red otherwise.
C4_ColorMatchesStored ==
    \A i \in 1..Len(candles) :
        /\ candles[i].color \in {GREEN, RED}
        /\ candles[i].color = GREEN <=> candles[i].close >= candles[i].open

\* C5: the current price is at least 1.00 (100 cents) in every reachable
\* state, whatever percentage changes were drawn.
C5_PriceFloor == current_price >= 100

C5_Witness ==
    /\ prev_price # <<>>
    /\ prev_price[1] > 100
    /\ current_price = 100

\* C6: once the chart shows candles, its top price is above its bottom price.
C6_WindowSpan == chart.bodies # <<>> => chart.top > chart.bot

C6_Witness ==
    /\ Len(chart.bodies) >= 2
    /\ \A i \in 1..Len(chart.bodies) :
        LET c == chart.bodies[i].candle
        IN  c.open = c.close /\ c.high = c.close /\ c.low = c.close
    /\ chart.top > chart.bot

\* C7: the chart shows exactly the last min(maxVisible, n) candles of the
\* history, oldest at the left, each once, where maxVisible is
\* max(1, floor(chart_w / 16)).
C7_WindowIsTail ==
    phase = "mainloop" =>
        LET n == Len(candles)
            q == chart_w \div 16
            m == IF q >= 1 THEN q ELSE 1
            k == IF m <= n THEN m ELSE n
        IN  /\ Len(chart.bodies) = k
            /\ \A i \in 1..k :
                /\ chart.bodies[i].candle = candles[n - k + i]
                /\ chart.bodies[i].x = 16 * (i - 1)

C7_Witness ==
    /\ phase = "mainloop"
    /\ chart_w \div 16 = 2
    /\ Len(candles) > 2
    /\ Len(chart.bodies) = 2
    /\ candles[1] # candles[2]
    /\ candles[2] # candles[3]

\* C8: a buy or a sell, executed or rejected, leaves the current price and
\* the candle history unchanged, and a tick leaves both balances unchanged.
C8_Frame ==
    [][/\ (Buy \/ Sell) => UNCHANGED <<current_price, candles>>
       /\ (FirstUpdate \/ TimerFires) =>
            UNCHANGED <<balance_usd, balance_eth>>]_vars

C8_Witness ==
    /\ balance_usd # Fin(INITIAL_USD, 0)
    /\ Len(candles) = MaxCandles
    /\ current_price # INITIAL_PRICE
    /\ dialog # NoDialog

\* C9: after construction exactly one update callback is pending between
\* handlers and none before, and each firing has run its tick in order: the
\* new candle closes at the new price, the chart ends with the new candle
\* and the header shows the new price.
C9_SelfRescheduling ==
    /\ pending = (IF phase = "mainloop" THEN 1 ELSE 0)
    /\ phase = "mainloop" =>
        /\ Last(candles).close = current_price
        /\ chart.bodies # <<>>
        /\ Last(chart.bodies).candle = Last(candles)
        /\ price_var = <<current_price>>

C9_Witness ==
    /\ phase = "mainloop"
    /\ pending = 1
    /\ Len(candles) = MaxCandles
    /\ nclicks >= 1
    /\ balance_eth # Fin(INITIAL_ETH, 0)

\* C10: every tick appends exactly one candle, whose open is the close of
\* the candle that was last and whose close is the new current price; no step
\* changes or removes a candle of the history, and a trade adds none.
C10_AppendOnly ==
    [][/\ (FirstUpdate \/ TimerFires) =>
            /\ Len(candles') = Len(candles) + 1
            /\ Last(candles').open = Last(candles).close
            /\ Last(candles').close = current_price'
       /\ Len(candles') >= Len(candles)
       /\ SubSeq(candles', 1, Len(candles)) = candles
       /\ (Buy \/ Sell \/ dismiss) => candles' = candles]_vars

C10_Witness ==
    /\ Len(candles) = MaxCandles
    /\ \A i \in 2..Len(candles) : candles[i].open = candles[i - 1].close
    /\ Last(candles).close # Last(candles).open
    /\ nclicks >= 1

====
